---- MODULE Spec2Model ----
(***************************************************************************)
(* Model of the star-gift morph controller: the App component's smoothing  *)
(* loop, gesture callback and manual toggle (src/ChristmasGift/App.tsx)    *)
(* and the HandTracker component that feeds it (src/unnamed/part_000).     *)
(*                                                                         *)
(* Numbers.  The program computes in IEEE doubles.  The model computes in  *)
(* fixed point: the real number x is the integer x * Scale.  A landmark    *)
(* coordinate is given in hundredths of the image side.  The resolution is *)
(* fine enough that the 0.001 snap threshold of the smoothing loop is      *)
(* reached before a smoothing step rounds to nothing, as it is in doubles. *)
(***************************************************************************)
EXTENDS Integers, Sequences, FiniteSets, TLC

\* ------------------------------------------------------------------ bounds
\* Fixed-point resolution: Scale units make 1.0.
Scale == 100000
\* Runs of the smoothing loop (App.tsx loop) in one behaviour of Spec.
MaxTicks == 4
\* Runs of predictWebcam in one behaviour of Spec.
MaxFrames == 2
\* Clicks on the manual toggle in one behaviour of Spec.
MaxToggles == 2
MaxRenders == 3
MaxFoliage == 1
\* Camera heights are integers: the height y stands as y * CamScale.
CamScale == 1000
\* SpecSettle starts the smoothers on the multiples of 1/GridSteps.
GridSteps == 4
\* Runs of the smoothing loop after which the morph value, and the height
\* value, has reached a target that did not change.
MorphSettleTicks == 84
HeightSettleTicks == 136
\* SpecSettle counts the runs of the loop up to here.
TickCap == HeightSettleTicks + 2
\* Rounding error the fixed-point smoother may gather over a run, in units
\* of 1/Scale.
Tol == 8

\* ------------------------------------------------------------- arithmetic
Abs(x) == IF x < 0 THEN -x ELSE x

\* Math.min(Math.max(x, lo), hi)
Clamp(x, lo, hi) ==
    LET m == IF x > lo THEN x ELSE lo IN IF m < hi THEN m ELSE hi

\* A fraction n/d of 1.0 in fixed point.
Frac(n, d) == (n * Scale) \div d

\* x * (n/100) rounded to the nearest unit, symmetric about 0 as a double
\* product is.
MulPercent(x, n) ==
    LET a == (Abs(x) * n + 50) \div 100 IN IF x < 0 THEN -a ELSE a

RECURSIVE IsqrtBetween(_, _, _)
IsqrtBetween(n, lo, hi) ==
    IF lo >= hi THEN lo
    ELSE LET mid == (lo + hi + 1) \div 2
         IN IF mid * mid <= n THEN IsqrtBetween(n, mid, hi)
                              ELSE IsqrtBetween(n, lo, mid - 1)

\* Largest r with r * r <= n.
Isqrt(n) == IsqrtBetween(n, 0, 40000)

\* Math.sqrt(dx*dx + dy*dy) for dx, dy in hundredths, as a fixed-point number
\* (computed to four decimals: a 32-bit square allows no more).
Hypot(dx, dy) == Isqrt((dx * dx + dy * dy) * 10000) * (Scale \div 10000)

\* A landmark coordinate given in hundredths, as a fixed-point number.
Coord(c) == (c * Scale) \div 100

\* ------------------------------------------------------------------ types
\* enum TreeState (types.ts)
ASSEMBLED == "Assembled"
SCATTERED == "Scattered"
TreeState == {ASSEMBLED, SCATTERED}

\* ------------------------------------------------------- smoothing (App.tsx)
\* Rate constants of the two smoothers, in hundredths per tick.
HeightRate == 5
\* Mutant: the morph smoother runs at the height smoother's rate.
MorphRateOfHeight == HeightRate
MorphRate == 8
\* The snap threshold 0.001.
SnapEps == Frac(1, 1000)

\* Mutant: the snap test is lost, so the value creeps and rounds to a stall.
SmoothNoSnap(prev, target, rate) ==
    LET diff == target - prev IN prev + ((diff * rate) \div 100)

\* Mutant: the step is added with a gain above 1 and passes the target.
SmoothOvershoot(prev, target, rate) ==
    LET diff == target - prev
    IN IF Abs(diff) < SnapEps THEN target
       ELSE prev + MulPercent(diff, 100 + rate)

\* The updater passed to setMorphProgress / setHandHeight:
\*   diff = target - prev; |diff| < 0.001 ? target : prev + diff * rate
Smooth(prev, target, rate) ==
    LET diff == target - prev
    IN IF Abs(diff) < SnapEps THEN target
       ELSE prev + MulPercent(diff, rate)

\* ------------------------------------------------------ landmarks (inputs)
\* A landmark: normalized image coordinates, in hundredths.
P(x, y) == [x |-> x, y |-> y]

\* A hand: the landmark array, of which the code reads the entries 4
\* (thumb tip), 8 (index tip) and 20 (pinky tip).  An entry outside the
\* DOMAIN is `undefined` in the program.
Hand(thumb, index, pinky) == (4 :> thumb) @@ (8 :> index) @@ (20 :> pinky)

HTop == Hand(P(0, 0), P(0, 0), P(0, 0))
HBottom == Hand(P(60, 100), P(100, 100), P(100, 100))
HMid == Hand(P(40, 50), P(50, 50), P(65, 50))
HOut == Hand(P(-20, -20), P(120, -20), P(120, 130))
\* Malformed hands: the index tip, or the pinky tip, is missing.
HNoIndex == (4 :> P(0, 0)) @@ (20 :> P(30, 0))
HNoPinky == (4 :> P(10, 90)) @@ (8 :> P(50, 90))

\* results.landmarks of one detectForVideo call: at most numHands = 2 hands.
\* No hand; one hand closed at the top, half open in the middle, open at the
\* bottom, outside the image; two index tips at one position, at opposite
\* corners, 0.4 apart; and the malformed sets.
Landmarks ==
    { <<>>,
      <<HTop>>, <<HMid>>, <<HBottom>>, <<HOut>>,
      <<HMid, HMid>>, <<HTop, HBottom>>, <<HNoPinky, HMid>>,
      <<HNoIndex>>, <<HNoPinky>>, <<HMid, HNoIndex>> }

\* --------------------------------------------- gesture mapper (part_000)
\* Reading a property of `undefined` throws a TypeError: the two-hand branch
\* reads [0][8] and [1][8], the one-hand branch reads [4], [20] and [8].
Throws(lm) ==
    \/ Len(lm) = 2 /\ (8 \notin DOMAIN lm[1] \/ 8 \notin DOMAIN lm[2])
    \/ Len(lm) = 1 /\ ({4, 8, 20} \ DOMAIN lm[1]) # {}

\* distance before the clamp (predictWebcam, lines 68-105).
RawDistance(lm) ==
    IF Len(lm) = 2
    THEN LET handA == lm[1][8]
             handB == lm[2][8]
         IN Hypot(handA.x - handB.x, handA.y - handB.y)
    ELSE IF Len(lm) = 1
    THEN LET thumb == lm[1][4]
             pinky == lm[1][20]
         IN Hypot(thumb.x - pinky.x, thumb.y - pinky.y) * 2
    ELSE 0

\* Mutant: the height is the image's y, not inverted.
RawHeightNotInverted(lm) ==
    IF Len(lm) = 2
    THEN (Coord(lm[1][8].y) + Coord(lm[2][8].y)) \div 2
    ELSE IF Len(lm) = 1
    THEN Coord(lm[1][8].y)
    ELSE Frac(1, 2)

\* height before the clamp: 0.5 by default, 1 - y otherwise.
RawHeight(lm) ==
    IF Len(lm) = 2
    THEN Scale - ((Coord(lm[1][8].y) + Coord(lm[2][8].y)) \div 2)
    ELSE IF Len(lm) = 1
    THEN Scale - Coord(lm[1][8].y)
    ELSE Frac(1, 2)

\* Mutant: the clamp of lines 109-110 is lost.
NoClampReading(lm) ==
    [distance |-> RawDistance(lm),
     height   |-> RawHeight(lm),
     detected |-> Len(lm) > 0]

\* The triple predictWebcam passes to onHandUpdate (lines 108-112).
Reading(lm) ==
    [distance |-> Clamp(RawDistance(lm), 0, Frac(12, 10)),
     height   |-> Clamp(RawHeight(lm), 0, Scale),
     detected |-> Len(lm) > 0]

\* ------------------------------------------------------------------ state
VARIABLES
    mounted,          \* the App view is mounted (not yet torn down)
    hasStarted,       \* App: useState(false)
    treeState,        \* App: useState(TreeState.ASSEMBLED), the discrete mode
    morphProgress,    \* App: useState(0), the smoothed morph value
    handDetected,     \* App: useState(false)
    handHeight,       \* App: useState(0.5), the smoothed height
    targetMorphRef,   \* App: useRef(0)
    targetHeightRef,  \* App: useRef(0.5)
    frameId,          \* App smoothing loop: its animation-frame request
    trackerPc,        \* HandTracker: where its asynchronous life cycle stands
    handLandmarkerRef,\* HandTracker: useRef(null), TRUE once the model is set
    loading,          \* HandTracker: useState(true)
    requestRef,       \* HandTracker: useRef(0), nonzero once a frame is requested
    onHandUpdate,     \* the callback closure predictWebcam holds: the
                      \* hasStarted and treeState of the render that made it
    ticks,            \* runs of the smoothing loop so far
    frames,           \* runs of predictWebcam so far
    toggles,          \* clicks on the toggle so far
    last,             \* the operation that produced this state
    currentHeightRef, \* CameraRig: useRef(1), the damped camera height
    cameraY,          \* camera.position.y
    renders,          \* runs of CameraRig's frame callback so far
    lastRender,       \* what the last of them found: detected, the retained
                      \* height and the camera's height
    results,          \* the landmark set detectForVideo is about to return,
                      \* where a specification fixes it in advance
    foliage,          \* the foliage particle generateFoliage stored last
    dummy             \* Ornaments: the instance updateMesh placed last

vars == <<mounted, hasStarted, treeState, morphProgress, handDetected,
          handHeight, targetMorphRef, targetHeightRef, frameId, trackerPc,
          handLandmarkerRef, loading, requestRef, onHandUpdate, ticks,
          frames, toggles, last, currentHeightRef, cameraY, renders,
          lastRender, results, foliage, dummy>>

appVars == <<hasStarted, treeState, morphProgress, handDetected, handHeight,
             targetMorphRef, targetHeightRef>>
trackerVars == <<trackerPc, handLandmarkerRef, loading, requestRef,
                 onHandUpdate>>
cameraVars == <<currentHeightRef, cameraY, renders, lastRender>>
sceneVars == <<results, foliage, dummy>>

\* Nothing generated or placed yet.
None == [id |-> -1]

\* The scene as it is before any render frame: the camera at its
\* configured position [0, 1, 14] (App.tsx line 133), no landmark set
\* fixed, no particle generated, no instance placed.
SceneAtRest ==
    /\ currentHeightRef = CamScale
    /\ cameraY = CamScale
    /\ renders = 0
    /\ lastRender = [detected |-> FALSE, prevHeight |-> CamScale,
                     prevY |-> CamScale]
    /\ results = <<>>
    /\ foliage = None
    /\ dummy = None

\* What `last` records: the operation, the smoothed values, morph target and
\* mode it found and, for a predictWebcam run that called onHandUpdate, the
\* triple it passed.
OpOn(name, morph, height, target, mode) ==
    [op |-> name, distance |-> 0, height |-> 0, detected |-> FALSE,
     prevMorph |-> morph, prevHeight |-> height, prevTarget |-> target,
     prevMode |-> mode]
Op(name) == OpOn(name, morphProgress, handHeight, targetMorphRef, treeState)
Delivered(r) ==
    [Op("reading") EXCEPT !.distance = r.distance, !.height = r.height,
                          !.detected = r.detected]

\* The state after App's first render and its mount effect: the smoothing
\* loop has run once on current = target and has requested its next frame.
Init ==
    /\ mounted = TRUE
    /\ hasStarted = FALSE
    /\ treeState = ASSEMBLED
    /\ morphProgress = 0
    /\ handDetected = FALSE
    /\ handHeight = Frac(1, 2)
    /\ targetMorphRef = 0
    /\ targetHeightRef = Frac(1, 2)
    /\ frameId = "requested"
    /\ trackerPc = "unmounted"
    /\ handLandmarkerRef = FALSE
    /\ loading = TRUE
    /\ requestRef = 0
    /\ onHandUpdate = [hasStarted |-> FALSE, treeState |-> ASSEMBLED]
    /\ ticks = 0
    /\ frames = 0
    /\ toggles = 0
    /\ last = OpOn("init", 0, Frac(1, 2), 0, ASSEMBLED)
    /\ SceneAtRest

\* ------------------------------------------------------- App.tsx operations
\* loop() of the smoothing effect (lines 76-92): both updaters, then the
\* next frame is requested.
LoopRun ==
    /\ mounted
    /\ frameId = "requested"
    /\ morphProgress' = Smooth(morphProgress, targetMorphRef, MorphRate)
    /\ handHeight' = Smooth(handHeight, targetHeightRef, HeightRate)
    /\ last' = Op("loop")
    /\ UNCHANGED <<mounted, hasStarted, treeState, handDetected,
                   targetMorphRef, targetHeightRef, frameId, trackerVars,
                   frames, toggles>>
    /\ UNCHANGED <<cameraVars, sceneVars>>

Loop ==
    /\ ticks < MaxTicks
    /\ LoopRun
    /\ ticks' = ticks + 1

\* The mode's endpoint of the morph value: 0 = tree, 1 = scatter.
Endpoint(mode) == IF mode = ASSEMBLED THEN 0 ELSE Scale

\* Mutant: the mode is driven by the smoothed value instead of the reading.
HandleHandUpdateSmoothed(distance, height, detected) ==
    /\ handDetected' = detected
    /\ IF detected
       THEN /\ targetMorphRef' = Clamp(distance, 0, Scale)
            /\ treeState' = IF morphProgress > Frac(6, 10) THEN SCATTERED
                            ELSE IF morphProgress < Frac(4, 10) THEN ASSEMBLED
                            ELSE treeState
            /\ targetHeightRef' = height
       ELSE /\ targetMorphRef' = Endpoint(onHandUpdate.treeState)
            /\ UNCHANGED <<treeState, targetHeightRef>>

\* Mutant: the no-hands branch leaves the morph target alone.
HandleHandUpdateKeepMorph(distance, height, detected) ==
    /\ handDetected' = detected
    /\ IF detected
       THEN LET morphVal == Clamp(distance, 0, Scale)
            IN /\ targetMorphRef' = morphVal
               /\ treeState' = IF morphVal > Frac(6, 10) THEN SCATTERED
                               ELSE IF morphVal < Frac(4, 10) THEN ASSEMBLED
                               ELSE treeState
               /\ targetHeightRef' = height
       ELSE UNCHANGED <<targetMorphRef, treeState, targetHeightRef>>

\* Mutant: the height is stored whether or not a hand was detected.
HandleHandUpdateResetHeight(distance, height, detected) ==
    /\ handDetected' = detected
    /\ targetHeightRef' = height
    /\ IF detected
       THEN LET morphVal == Clamp(distance, 0, Scale)
            IN /\ targetMorphRef' = morphVal
               /\ treeState' = IF morphVal > Frac(6, 10) THEN SCATTERED
                               ELSE IF morphVal < Frac(4, 10) THEN ASSEMBLED
                               ELSE treeState
       ELSE /\ targetMorphRef' = Endpoint(onHandUpdate.treeState)
            /\ UNCHANGED treeState

\* Mutant: the distance is stored without the second clamp to [0, 1].
HandleHandUpdateNoClamp(distance, height, detected) ==
    /\ handDetected' = detected
    /\ IF detected
       THEN /\ targetMorphRef' = distance
            /\ treeState' = IF distance > Frac(6, 10) THEN SCATTERED
                            ELSE IF distance < Frac(4, 10) THEN ASSEMBLED
                            ELSE treeState
            /\ targetHeightRef' = height
       ELSE /\ targetMorphRef' = Endpoint(onHandUpdate.treeState)
            /\ UNCHANGED <<treeState, targetHeightRef>>

\* handleHandUpdate (lines 97-118), as the closure the tracker holds: its
\* hasStarted and treeState are those of the render that created it.
HandleHandUpdate(distance, height, detected) ==
    IF ~onHandUpdate.hasStarted
    THEN UNCHANGED <<handDetected, targetMorphRef, treeState, targetHeightRef>>
    ELSE /\ handDetected' = detected
         /\ IF detected
            THEN LET morphVal == Clamp(distance, 0, Scale)
                 IN /\ targetMorphRef' = morphVal
                    /\ treeState' =
                         IF morphVal > Frac(6, 10) THEN SCATTERED
                         ELSE IF morphVal < Frac(4, 10) THEN ASSEMBLED
                         ELSE treeState
                    /\ targetHeightRef' = height
            ELSE /\ targetMorphRef' = Endpoint(onHandUpdate.treeState)
                 /\ UNCHANGED <<treeState, targetHeightRef>>

\* Mutant: the toggle sets the mode but forgets the morph target.
ToggleStateNoTarget ==
    /\ mounted
    /\ hasStarted
    /\ toggles < MaxToggles
    /\ treeState' = IF treeState = ASSEMBLED THEN SCATTERED ELSE ASSEMBLED
    /\ toggles' = toggles + 1
    /\ last' = Op("toggle")
    /\ UNCHANGED <<mounted, hasStarted, morphProgress, handDetected,
                   handHeight, targetMorphRef, targetHeightRef, frameId,
                   trackerVars, ticks, frames>>
    /\ UNCHANGED <<cameraVars, sceneVars>>

\* Mutant: the toggle also writes the smoothed morph value.
ToggleStateSnapsMorph ==
    /\ mounted
    /\ hasStarted
    /\ toggles < MaxToggles
    /\ LET newState == IF treeState = ASSEMBLED THEN SCATTERED ELSE ASSEMBLED
       IN /\ treeState' = newState
          /\ targetMorphRef' = Endpoint(newState)
          /\ morphProgress' = Endpoint(newState)
    /\ toggles' = toggles + 1
    /\ last' = Op("toggle")
    /\ UNCHANGED <<mounted, hasStarted, handDetected, handHeight,
                   targetHeightRef, frameId, trackerVars, ticks, frames>>
    /\ UNCHANGED <<cameraVars, sceneVars>>

\* toggleState (lines 120-124); its button is rendered once hasStarted.
ToggleState ==
    /\ mounted
    /\ hasStarted
    /\ toggles < MaxToggles
    /\ LET newState == IF treeState = ASSEMBLED THEN SCATTERED ELSE ASSEMBLED
       IN /\ treeState' = newState
          /\ targetMorphRef' = Endpoint(newState)
    /\ toggles' = toggles + 1
    /\ last' = Op("toggle")
    /\ UNCHANGED <<mounted, hasStarted, morphProgress, handDetected,
                   handHeight, targetHeightRef, frameId, trackerVars, ticks,
                   frames>>
    /\ UNCHANGED <<cameraVars, sceneVars>>

\* GiftOverlay's onOpen: setHasStarted(true) (line 129).  The render that
\* follows mounts HandTracker (line 160) with the handleHandUpdate of that
\* render, and HandTracker's mount effect calls initHandLandmarker.
StartExperience ==
    /\ mounted
    /\ ~hasStarted
    /\ hasStarted' = TRUE
    /\ onHandUpdate' = [hasStarted |-> TRUE, treeState |-> treeState]
    /\ trackerPc' = "loadingModel"
    /\ last' = Op("start")
    /\ UNCHANGED <<mounted, treeState, morphProgress, handDetected,
                   handHeight, targetMorphRef, targetHeightRef, frameId,
                   handLandmarkerRef, loading, requestRef, ticks, frames,
                   toggles>>
    /\ UNCHANGED <<cameraVars, sceneVars>>

\* ------------------------------------------- HandTracker (part_000) steps
\* startWebcam (lines 45-57) up to its await: getUserMedia is called when
\* the browser offers it and the video element is still there.
AfterStartWebcam(hasMediaDevices) ==
    IF hasMediaDevices /\ mounted THEN "openingCamera" ELSE "noCamera"

\* initHandLandmarker's awaits resolve (lines 19-31): the model is stored,
\* loading is cleared and startWebcam is called.
ModelLoaded ==
    /\ trackerPc = "loadingModel"
    /\ handLandmarkerRef' = TRUE
    /\ loading' = IF mounted THEN FALSE ELSE loading
    /\ \E hasMediaDevices \in BOOLEAN :
          trackerPc' = AfterStartWebcam(hasMediaDevices)
    /\ last' = Op("modelLoaded")
    /\ UNCHANGED <<mounted, appVars, frameId, requestRef, onHandUpdate,
                   ticks, frames, toggles>>
    /\ UNCHANGED <<cameraVars, sceneVars>>

\* One of initHandLandmarker's awaits rejects: the catch of lines 32-34 logs
\* the error and nothing else happens.
ModelFailed ==
    /\ trackerPc = "loadingModel"
    /\ trackerPc' = "noModel"
    /\ last' = Op("modelFailed")
    /\ UNCHANGED <<mounted, appVars, frameId, handLandmarkerRef, loading,
                   requestRef, onHandUpdate, ticks, frames, toggles>>
    /\ UNCHANGED <<cameraVars, sceneVars>>

\* getUserMedia resolves (lines 51-52): the stream is attached and
\* predictWebcam is registered for the video's loadeddata event.  With the
\* view torn down videoRef.current is null, line 51 throws and the catch of
\* lines 53-55 logs it.
CameraOpened ==
    /\ trackerPc = "openingCamera"
    /\ trackerPc' = IF mounted THEN "awaitLoadedData" ELSE "noCamera"
    /\ last' = Op("cameraOpened")
    /\ UNCHANGED <<mounted, appVars, frameId, handLandmarkerRef, loading,
                   requestRef, onHandUpdate, ticks, frames, toggles>>
    /\ UNCHANGED <<cameraVars, sceneVars>>

\* Mutant: the catch calls getUserMedia again.
CameraFailedRetry ==
    /\ trackerPc = "openingCamera"
    /\ trackerPc' = "openingCamera"
    /\ last' = Op("cameraFailed")
    /\ UNCHANGED <<mounted, appVars, frameId, handLandmarkerRef, loading,
                   requestRef, onHandUpdate, ticks, frames, toggles>>
    /\ UNCHANGED <<cameraVars, sceneVars>>

\* getUserMedia rejects: the catch of lines 53-55 logs the error.
CameraFailed ==
    /\ trackerPc = "openingCamera"
    /\ trackerPc' = "noCamera"
    /\ last' = Op("cameraFailed")
    /\ UNCHANGED <<mounted, appVars, frameId, handLandmarkerRef, loading,
                   requestRef, onHandUpdate, ticks, frames, toggles>>
    /\ UNCHANGED <<cameraVars, sceneVars>>

\* predictWebcam is due: as the loadeddata listener, or as the animation
\* frame it requested.
PredictWebcamDue ==
    /\ trackerPc \in {"awaitLoadedData", "running"}
    /\ frames < MaxFrames

\* predictWebcam, line 60: the video element or the model is gone; it
\* returns without requesting another frame.
PredictWebcamGone ==
    /\ PredictWebcamDue
    /\ ~mounted \/ ~handLandmarkerRef
    /\ trackerPc' = "stopped"
    /\ frames' = frames + 1
    /\ last' = Op("gone")
    /\ UNCHANGED <<mounted, appVars, frameId, handLandmarkerRef, loading,
                   requestRef, onHandUpdate, ticks, toggles>>
    /\ UNCHANGED <<cameraVars, sceneVars>>

\* predictWebcam with currentTime = 0 (line 64 false): no detection, the
\* next frame is requested (line 128).
PredictWebcamIdle ==
    /\ PredictWebcamDue
    /\ mounted /\ handLandmarkerRef
    /\ trackerPc' = "running"
    /\ requestRef' = 1
    /\ frames' = frames + 1
    /\ last' = Op("idle")
    /\ UNCHANGED <<mounted, appVars, frameId, handLandmarkerRef, loading,
                   onHandUpdate, ticks, toggles>>
    /\ UNCHANGED <<cameraVars, sceneVars>>

\* predictWebcam on a playing video whose landmark set makes lines 77-104
\* throw: the TypeError leaves predictWebcam before onHandUpdate (line 112)
\* and before requestAnimationFrame (line 128).
PredictWebcamThrow(lm) ==
    /\ PredictWebcamDue
    /\ mounted /\ handLandmarkerRef
    /\ Throws(lm)
    /\ trackerPc' = "crashed"
    /\ frames' = frames + 1
    /\ last' = Op("throw")
    /\ UNCHANGED <<mounted, appVars, frameId, handLandmarkerRef, loading,
                   requestRef, onHandUpdate, ticks, toggles>>
    /\ UNCHANGED <<cameraVars, sceneVars>>

\* predictWebcam on a playing video (lines 63-128): the reading is computed,
\* clamped and passed to onHandUpdate, and the next frame is requested.
PredictWebcamDeliver(lm) ==
    /\ PredictWebcamDue
    /\ mounted /\ handLandmarkerRef
    /\ ~Throws(lm)
    /\ LET r == Reading(lm)
       IN /\ HandleHandUpdate(r.distance, r.height, r.detected)
          /\ last' = Delivered(r)
    /\ trackerPc' = "running"
    /\ requestRef' = 1
    /\ frames' = frames + 1
    /\ UNCHANGED <<mounted, hasStarted, morphProgress, handHeight, frameId,
                   handLandmarkerRef, loading, onHandUpdate, ticks, toggles>>
    /\ UNCHANGED <<cameraVars, sceneVars>>

PredictWebcam ==
    \/ PredictWebcamGone
    \/ PredictWebcamIdle
    \/ \E lm \in Landmarks : PredictWebcamThrow(lm)
    \/ \E lm \in Landmarks : PredictWebcamDeliver(lm)

\* Mutant: HandTracker's cleanup does not cancel the frame it requested.
UnmountKeepsTrackerFrame ==
    /\ mounted
    /\ mounted' = FALSE
    /\ frameId' = "cancelled"
    /\ last' = Op("unmount")
    /\ UNCHANGED <<appVars, trackerVars, ticks, frames, toggles>>
    /\ UNCHANGED <<cameraVars, sceneVars>>

\* The view is torn down: the cleanup of the smoothing effect (line 94)
\* cancels its frame; HandTracker's cleanup (lines 39-41) cancels the frame
\* requestRef holds, if any; the video element is gone.
Unmount ==
    /\ mounted
    /\ mounted' = FALSE
    /\ frameId' = "cancelled"
    /\ trackerPc' = IF requestRef # 0 /\ trackerPc = "running"
                    THEN "stopped" ELSE trackerPc
    /\ last' = Op("unmount")
    /\ UNCHANGED <<appVars, handLandmarkerRef, loading, requestRef,
                   onHandUpdate, ticks, frames, toggles>>
    /\ UNCHANGED <<cameraVars, sceneVars>>

Next ==
    \/ Loop
    \/ ToggleState
    \/ StartExperience
    \/ ModelLoaded
    \/ ModelFailed
    \/ CameraOpened
    \/ CameraFailed
    \/ PredictWebcam
    \/ Unmount

Spec == Init /\ [][Next]_vars

\* ------------------------------------------- the smoothing loop on its own
\* Values of [0, 1] the smoothers are started on: the multiples of
\* 1/GridSteps and the values at and next to the snap threshold.
GridValues ==
    {Frac(i, GridSteps) : i \in 0..GridSteps}
        \cup {SnapEps - 1, SnapEps, Scale - SnapEps, Scale - SnapEps + 1}

\* The mode a detected reading of spread t leaves, coming from `mode`.
ModeAfter(t, mode) ==
    IF t > Frac(6, 10) THEN SCATTERED
    ELSE IF t < Frac(4, 10) THEN ASSEMBLED
    ELSE mode

\* The experience is running under gesture control: a hand is detected, the
\* smoothed values (c) and their targets (t) are anywhere in [0, 1].
Running(c, t, mode) ==
    /\ mounted = TRUE
    /\ hasStarted = TRUE
    /\ morphProgress = c
    /\ targetMorphRef = t
    /\ handHeight = c
    /\ targetHeightRef = t
    /\ treeState = ModeAfter(t, mode)
    /\ last = OpOn("init", c, c, t, ModeAfter(t, mode))
    /\ handDetected = TRUE
    /\ frameId = "requested"
    /\ trackerPc = "running"
    /\ handLandmarkerRef = TRUE
    /\ loading = FALSE
    /\ requestRef = 1
    /\ onHandUpdate = [hasStarted |-> TRUE, treeState |-> ASSEMBLED]

\* From here on nothing but the smoothing loop runs.
InitSettle ==
    /\ \E c \in GridValues, t \in GridValues : Running(c, t, ASSEMBLED)
    /\ ticks = 0
    /\ frames = 0
    /\ toggles = 0
    /\ SceneAtRest

\* The smoothing loop, its runs counted up to TickCap.
LoopSettle ==
    /\ LoopRun
    /\ ticks' = IF ticks < TickCap THEN ticks + 1 ELSE ticks

\* requestAnimationFrame runs the requested frame: the loop is never starved.
SpecSettle == InitSettle /\ [][LoopSettle]_vars /\ WF_vars(LoopSettle)


\* ------------------------------------- gesture control from anywhere in [0,1]
\* The running experience, taken up on any smoothed values and targets with
\* two runs of the smoothing loop, one click and one camera frame to come, in
\* any order.
InitControl ==
    /\ \E c \in GridValues, t \in GridValues, mode \in TreeState :
          Running(c, t, mode)
    /\ ticks = MaxTicks - 2
    /\ frames = MaxFrames - 1
    /\ toggles = MaxToggles - 1
    /\ SceneAtRest

NextControl ==
    \/ Loop
    \/ ToggleState
    \/ PredictWebcamIdle
    \/ \E lm \in Landmarks : PredictWebcamThrow(lm)
    \/ \E lm \in Landmarks : PredictWebcamDeliver(lm)
    \/ Unmount

SpecControl == InitControl /\ [][NextControl]_vars


\* ------------------------------------------------- geometry (part_001)
\* Lengths, random draws, sines and cosines are integers: x stands as
\* x * Milli.
Milli == 1000
TREE_HEIGHT == 7 * Milli
TREE_RADIUS == (28 * Milli) \div 10
SCATTER_RADIUS == 12 * Milli

\* a * b rounded to the nearest unit, symmetric about 0.
MulMilli(a, b) ==
    LET m == (Abs(a * b) + Milli \div 2) \div Milli
    IN IF (a < 0) # (b < 0) THEN -m ELSE m

RECURSIVE IcbrtBetween(_, _, _)
IcbrtBetween(n, lo, hi) ==
    IF lo >= hi THEN lo
    ELSE LET mid == (lo + hi + 1) \div 2
         IN IF mid * mid * mid <= n THEN IcbrtBetween(n, mid, hi)
                                    ELSE IcbrtBetween(n, lo, mid - 1)

\* Math.cbrt(w) for a draw w.
Cbrt(w) == IcbrtBetween(w * Milli * Milli, 0, Milli)

\* Values Math.random() returns, a number of [0, 1): 0, 1/8, 1/2, 0.999.
RandomDraws == {0, 125, 500, 999}

\* Math.cos and Math.sin of 2 * PI * u for the draws u, to three decimals.
Cos2Pi(u) ==
    CASE u = 0 -> Milli
      [] u = 125 -> 707
      [] u = 500 -> -Milli
      [] u = 999 -> 999
Sin2Pi(u) ==
    CASE u = 0 -> 0
      [] u = 125 -> 707
      [] u = 500 -> 0
      [] u = 999 -> -6

\* getRandomPointInSphere (lines 12-24) on the draws u, v, w: phi is
\* acos(2v - 1), so cos(phi) = 2v - 1 and sin(phi) = sqrt(1 - cos(phi)^2).
GetRandomPointInSphere(radius, u, v, w) ==
    LET cosPhi == 2 * v - Milli
        sinPhi == Isqrt(Milli * Milli - cosPhi * cosPhi)
        r == MulMilli(Cbrt(w), radius)
    IN <<MulMilli(MulMilli(r, sinPhi), Cos2Pi(u)),
         MulMilli(MulMilli(r, sinPhi), Sin2Pi(u)),
         MulMilli(r, cosPhi)>>

\* Mutant: the radius is not tapered with the height.
GetRandomPointInCylinder(height, maxRadius, a, b, c) ==
    LET y == MulMilli(a, height)
        r == MulMilli(Isqrt(b * Milli), maxRadius)
    IN <<MulMilli(r, Cos2Pi(c)),
         y - height \div 2 - Milli \div 2,
         MulMilli(r, Sin2Pi(c))>>

\* getRandomPointInCone (lines 27-38) on the draws a, b, c.
GetRandomPointInCone(height, maxRadius, a, b, c) ==
    LET y == MulMilli(a, height)
        rAtY == MulMilli(Milli - (y * Milli) \div height, maxRadius)
        r == MulMilli(Isqrt(b * Milli), rAtY)
    IN <<MulMilli(r, Cos2Pi(c)),
         y - height \div 2 - Milli \div 2,
         MulMilli(r, Sin2Pi(c))>>

\* (Math.random() - 0.5) * 0.3 (line 70).
Jitter(j) == MulMilli(j - Milli \div 2, (3 * Milli) \div 10)

\* One iteration of generateFoliage's loop (lines 60-74): the scatter and
\* the formation position stored for particle i, on nine of the draws.
GenerateFoliage ==
    /\ mounted
    /\ foliage.id + 1 < MaxFoliage
    /\ \E u \in {125, 999}, v \in {125, 500}, w \in {0, 999},
          a \in {0, 500, 999}, b \in {0, 999}, c \in {125, 500},
          jx \in {0, 999}, jy \in {0, 999}, jz \in {0, 999} :
          LET scatter == GetRandomPointInSphere(SCATTER_RADIUS, u, v, w)
              tree == GetRandomPointInCone(TREE_HEIGHT, TREE_RADIUS, a, b, c)
          IN foliage' = [id |-> foliage.id + 1,
                         scatter |-> scatter,
                         tree |-> <<tree[1] + Jitter(jx),
                                    tree[2] + Jitter(jy),
                                    tree[3] + Jitter(jz)>>]
    /\ last' = Op("foliage")
    /\ UNCHANGED <<mounted, appVars, frameId, trackerVars, ticks, frames,
                   toggles, cameraVars, results, dummy>>

SpecGeometry == Init /\ [][GenerateFoliage]_vars


\* ------------------------------------------- ornaments (ParticleScene.tsx)
ORNAMENT_COUNT == 150

\* Formation and scatter positions generateOrnaments may have stored for an
\* instance: on the spiral around the cone, inside the sphere of radius 9.6.
TreePositions == {<<3100, -4500, 0>>, <<-200, 2400, 300>>}
ScatterPositions == {<<9600, 0, 0>>, <<-5000, 5000, -5000>>}

\* clamp(targetMorph * 1.2 - id * 0.002, 0, 1) (lines 235-236).
LocalMorph(morph, id) ==
    Clamp(MulPercent(morph, 120) - id * Frac(2, 1000), 0, Scale)

\* The cubic ease of line 237, on the argument taken to three decimals:
\* 4x^3 below 1/2, 1 - (2 - 2x)^3 / 2 from there on.
SmoothMorph(x) ==
    LET xm == (x * Milli) \div Scale
        unit == (Milli * Milli * Milli) \div Scale
    IN IF 2 * xm < Milli
       THEN (4 * xm * xm * xm) \div unit
       ELSE LET up == 2 * Milli - 2 * xm
            IN Scale - ((up * up * up) \div 2) \div unit

\* THREE.MathUtils.lerp(x, y, t) = x + (y - x) * t, rounded to the nearest
\* unit.
Lerp(x, y, t) ==
    LET a == (2 * Abs(y - x) * t + Scale) \div (2 * Scale)
    IN IF y < x THEN x - a ELSE x + a

\* One instance of one pass of Ornaments' frame callback (lines 231-243):
\* the instance after the one placed last is placed for the morphProgress
\* of this render.
UpdateMesh ==
    /\ mounted
    /\ dummy.id + 1 < ORNAMENT_COUNT
    /\ \E t \in TreePositions, sc \in ScatterPositions :
          LET id == dummy.id + 1
              localMorph == LocalMorph(morphProgress, id)
              smoothMorph == SmoothMorph(localMorph)
          IN dummy' = [id |-> id,
                       treePosition |-> t,
                       scatterPosition |-> sc,
                       targetMorph |-> morphProgress,
                       localMorph |-> localMorph,
                       position |-> <<Lerp(t[1], sc[1], smoothMorph),
                                      Lerp(t[2], sc[2], smoothMorph),
                                      Lerp(t[3], sc[3], smoothMorph)>>]
    /\ last' = Op("ornament")
    /\ UNCHANGED <<mounted, appVars, frameId, trackerVars, ticks, frames,
                   toggles, cameraVars, results, foliage>>

\* The experience with the smoothed morph value held anywhere in [0, 1].
InitOrnaments ==
    /\ \E c \in GridValues : Running(c, c, ASSEMBLED)
    /\ ticks = 0
    /\ frames = 0
    /\ toggles = 0
    /\ SceneAtRest

SpecOrnaments == InitOrnaments /\ [][UpdateMesh]_vars


\* ----------------------------------------------- the morph ramp from 0 to 1
\* Current = 0 and target = 0, then the target is set to 1 (by a toggle or
\* an open-hand reading); from here on nothing but the smoothing loop runs,
\* and `ticks` counts its runs.
InitRamp ==
    /\ Running(0, Scale, ASSEMBLED)
    /\ ticks = 0
    /\ frames = 0
    /\ toggles = 0
    /\ SceneAtRest

SpecRamp == InitRamp /\ [][LoopSettle]_vars /\ WF_vars(LoopSettle)


\* ------------------------------------------- the gesture mapper on a grid
\* Positions on the border and at the centre of the normalized image.
ImageGrid == {P(x, y) : x \in {0, 50, 100}, y \in {0, 50, 100}}

\* Two hands with their index tips anywhere on the grid; one hand with its
\* index tip anywhere on the grid, closed or open.
GridLandmarks ==
    {<<Hand(P(50, 50), a, P(50, 50)), Hand(P(50, 50), b, P(50, 50))>> :
        a \in ImageGrid, b \in ImageGrid}
    \cup {<<Hand(P(50, 50), a, p)>> :
              a \in ImageGrid, p \in {P(50, 50), P(100, 50)}}

\* The tracker is running and the next detection returns `results`.
InitMapper ==
    /\ Running(0, 0, ASSEMBLED)
    /\ ticks = 0
    /\ frames = MaxFrames - 1
    /\ toggles = 0
    /\ currentHeightRef = CamScale
    /\ cameraY = CamScale
    /\ renders = 0
    /\ lastRender = [detected |-> FALSE, prevHeight |-> CamScale,
                     prevY |-> CamScale]
    /\ results \in GridLandmarks
    /\ foliage = None
    /\ dummy = None

SpecMapper == InitMapper /\ [][PredictWebcamDeliver(results)]_vars


\* ------------------------------------------------------ the camera director
\* THREE.MathUtils.lerp(8, -6, targetHeight) (line 42): the camera height a
\* smoothed hand height h of [0, 1] maps to, 8 at h = 0 down to -6 at h = 1.
MappedHeight(h) == 8 * CamScale - (14 * h * CamScale) \div Scale

\* Frame times, in milliseconds, the renderer passes as delta.
Deltas == {16, 33, 100}

\* 1 - exp(-2 * delta), delta in seconds: the weight
\* THREE.MathUtils.damp(x, y, 2, delta) (line 45) gives its target, to five
\* decimals.
DampWeight(ms) ==
    CASE ms = 16 -> Frac(3149, 100000)
      [] ms = 33 -> Frac(6387, 100000)
      [] ms = 100 -> Frac(18127, 100000)

\* THREE.MathUtils.damp(x, y, 2, delta) = lerp(x, y, 1 - exp(-2 * delta)),
\* rounded to the nearest unit.
Damp(x, y, ms) ==
    LET d == Abs(y - x) * DampWeight(ms)
        a == (2 * d + Scale) \div (2 * Scale)
    IN IF y < x THEN x - a ELSE x + a

\* Mutant: the frame callback forgets the height when the hand is lost.
CameraRigFrameReset(ms) ==
    /\ mounted
    /\ renders < MaxRenders
    /\ IF handDetected
       THEN /\ currentHeightRef'
                 = Damp(currentHeightRef, MappedHeight(handHeight), ms)
            /\ cameraY' = currentHeightRef'
       ELSE /\ currentHeightRef' = CamScale
            /\ cameraY' = cameraY
    /\ renders' = renders + 1
    /\ lastRender' = [detected |-> handDetected,
                      prevHeight |-> currentHeightRef, prevY |-> cameraY]
    /\ last' = Op("render")
    /\ UNCHANGED <<mounted, appVars, frameId, trackerVars, ticks, frames,
                   toggles, sceneVars>>

\* CameraRig's useFrame callback (lines 35-59) with the props of line 143:
\* detected = handDetected, targetHeight = handHeight.
CameraRigFrame(ms) ==
    /\ mounted
    /\ renders < MaxRenders
    /\ IF handDetected
       THEN /\ currentHeightRef'
                 = Damp(currentHeightRef, MappedHeight(handHeight), ms)
            /\ cameraY' = currentHeightRef'
       ELSE UNCHANGED <<currentHeightRef, cameraY>>
    /\ renders' = renders + 1
    /\ lastRender' = [detected |-> handDetected,
                      prevHeight |-> currentHeightRef, prevY |-> cameraY]
    /\ last' = Op("render")
    /\ UNCHANGED <<mounted, appVars, frameId, trackerVars, ticks, frames,
                   toggles, sceneVars>>

\* Camera heights a drag of OrbitControls leaves the camera at.
OrbitHeights == {0, 5 * CamScale}

\* OrbitControls with enabled = !handDetected (line 146): while enabled, the
\* user's drag moves the camera.
OrbitControlsUpdate(y) ==
    /\ mounted
    /\ ~handDetected
    /\ cameraY # y
    /\ cameraY' = y
    /\ last' = Op("orbit")
    /\ UNCHANGED <<appVars, mounted, frameId, trackerVars, ticks, frames,
                   toggles, currentHeightRef, renders, lastRender, sceneVars>>

\* The running experience with a hand in view, one run of the smoothing
\* loop, two camera frames of the tracker and MaxRenders render frames to
\* come.
InitCamera ==
    /\ \E c \in {0, Frac(1, 2), Scale} : Running(c, c, ASSEMBLED)
    /\ ticks = MaxTicks - 1
    /\ frames = MaxFrames - 2
    /\ toggles = MaxToggles
    /\ SceneAtRest

NextCamera ==
    \/ Loop
    \/ \E lm \in Landmarks : PredictWebcamDeliver(lm)
    \/ \E ms \in Deltas : CameraRigFrame(ms)
    \/ \E y \in OrbitHeights : OrbitControlsUpdate(y)

SpecCamera == InitCamera /\ [][NextCamera]_vars


\* ------------------------------------------------------------------ claims
InUnit(x) == 0 <= x /\ x <= Scale
Between(a, x, b) == (a <= x /\ x <= b) \/ (b <= x /\ x <= a)
MorphSettled == morphProgress = targetMorphRef
HeightSettled == handHeight = targetHeightRef

\* C1: with the target fixed, the morph value (rate 0.08) equals its target
\* exactly after at most MorphSettleTicks runs of the smoothing loop and the
\* height value (rate 0.05) after at most HeightSettleTicks, from any start
\* in [0, 1]; once equal to the target a value stays equal on every later
\* run; and under a loop that keeps running both are eventually equal for
\* good.
C1_Converges ==
    /\ [](ticks >= MorphSettleTicks => MorphSettled)
    /\ [](ticks >= HeightSettleTicks => HeightSettled)
    /\ [][(MorphSettled => MorphSettled') /\ (HeightSettled => HeightSettled')]_vars
    /\ <>[](MorphSettled /\ HeightSettled)

\* The run that completes the longest approach: the height value snaps onto
\* its target on run number HeightSettleTicks, having started a whole unit
\* away, and the morph value is settled too.
C1_Witness ==
    /\ ticks = HeightSettleTicks
    /\ last.op = "loop"
    /\ last.prevHeight # handHeight
    /\ HeightSettled
    /\ MorphSettled
    /\ targetHeightRef \in {0, Scale}

\* C2: a run of the smoothing loop puts each smoothed value between its old
\* value and its target (inclusive): the distance to the target does not
\* grow and the value does not pass the target; for the morph and for the
\* height smoother.
C2_NoOvershoot ==
    [][/\ Between(morphProgress, morphProgress', targetMorphRef)
       /\ Between(handHeight, handHeight', targetHeightRef)
       /\ targetMorphRef' = targetMorphRef =>
             Abs(targetMorphRef - morphProgress')
                 <= Abs(targetMorphRef - morphProgress)
       /\ targetHeightRef' = targetHeightRef =>
             Abs(targetHeightRef - handHeight')
                 <= Abs(targetHeightRef - handHeight)
      ]_vars

\* A run of the loop has moved both values part of the way, and they are
\* strictly between where they were and the target.
C2_Witness ==
    /\ last.op = "loop"
    /\ last.prevMorph < morphProgress /\ morphProgress < targetMorphRef
    /\ last.prevHeight < handHeight /\ handHeight < targetHeightRef


\* A run of predictWebcam that called onHandUpdate.
ReadingStep == frames' = frames + 1 /\ last'.op = "reading"
\* The spread of that reading as handleHandUpdate uses it.
Spread(r) == Clamp(r.distance, 0, Scale)

\* C3 as stated: under gesture control the mode goes from Assembled to
\* Scattered only when the smoothed morph value is above 0.6, from Scattered
\* to Assembled only when it is below 0.4, and no reading changes the mode
\* while the smoothed value is inside (0.4, 0.6).
C3_OnSmoothedValue ==
    [][ReadingStep =>
        /\ (treeState = ASSEMBLED /\ treeState' = SCATTERED)
              => morphProgress > Frac(6, 10)
        /\ (treeState = SCATTERED /\ treeState' = ASSEMBLED)
              => morphProgress < Frac(4, 10)
        /\ (Frac(4, 10) < morphProgress /\ morphProgress < Frac(6, 10))
              => treeState' = treeState
      ]_vars

\* C3 amended: a run of predictWebcam changes the mode only by a reading
\* with a hand detected; to Scattered only when the reading's spread,
\* clamped to [0, 1] (the raw morph target, not the smoothed value), is
\* above 0.6 and to Assembled only when it is below 0.4; a reading whose
\* clamped spread is inside [0.4, 0.6] leaves the mode as it is.
C3_OnReadingSpread ==
    [][frames' = frames + 1 =>
        /\ treeState' # treeState => last'.op = "reading" /\ last'.detected
        /\ (treeState = ASSEMBLED /\ treeState' = SCATTERED)
              => Spread(last') > Frac(6, 10)
        /\ (treeState = SCATTERED /\ treeState' = ASSEMBLED)
              => Spread(last') < Frac(4, 10)
        /\ (/\ last'.op = "reading" /\ last'.detected
            /\ Frac(4, 10) <= Spread(last') /\ Spread(last') <= Frac(6, 10))
              => treeState' = treeState
      ]_vars

\* A reading of spread above 0.6 has switched the mode to Scattered while
\* the smoothed morph value was still below 0.4.
C3_Witness ==
    /\ last.op = "reading" /\ last.detected
    /\ last.prevMode = ASSEMBLED /\ treeState = SCATTERED
    /\ Spread(last) > Frac(6, 10)
    /\ morphProgress < Frac(4, 10)

\* C4 as stated: a reading with detected = false leaves the morph target at
\* the value it had before the reading.
C4_MorphTargetKept ==
    [][(ReadingStep /\ ~last'.detected) => targetMorphRef' = targetMorphRef]_vars

\* C4 amended: a reading with detected = false overwrites the morph target
\* with the endpoint (0 for Assembled, 1 for Scattered) of the mode held by
\* the callback the tracker calls; the last gesture spread does not persist.
C4_MorphTargetFallsBack ==
    [][(ReadingStep /\ ~last'.detected) =>
          /\ targetMorphRef' = Endpoint(onHandUpdate.treeState)
          /\ targetMorphRef' \in {0, Scale}
      ]_vars

\* A no-hands reading has replaced a morph target that a gesture had set
\* strictly inside (0, 1).
C4_Witness ==
    /\ last.op = "reading" /\ ~last.detected
    /\ 0 < last.prevTarget /\ last.prevTarget < Scale
    /\ targetMorphRef \in {0, Scale}

\* C5: a reading with detected = false leaves the height target as it was,
\* so after hands were detected the target stays at its last detected value
\* and the 0.5 the tracker computes for a no-hands frame is not stored.
C5_HeightTargetFrozen ==
    [][(ReadingStep /\ ~last'.detected) => targetHeightRef' = targetHeightRef]_vars

\* Hands had set a height target other than 0.5; the no-hands reading that
\* followed carried 0.5 and the target is still the detected value.
C5_Witness ==
    /\ last.op = "reading" /\ ~last.detected
    /\ last.height = Frac(1, 2)
    /\ targetHeightRef # Frac(1, 2)
    /\ frames >= 2

\* C6: every call of the toggle flips the mode and sets the morph target to
\* 0 when the new mode is Assembled and to 1 when it is Scattered; the
\* smoothed values, the height target and the hand-detected flag are as
\* they were.
C6_TogglePostcondition ==
    [][toggles' = toggles + 1 =>
         /\ treeState' \in TreeState /\ treeState' # treeState
         /\ targetMorphRef' = (IF treeState' = ASSEMBLED THEN 0 ELSE Scale)
         /\ UNCHANGED <<morphProgress, handHeight, targetHeightRef,
                        handDetected>>
      ]_vars

\* The toggle was clicked under gesture control with the scene scattered and
\* partly morphed: the mode is Assembled, the target 0, the smoothed value
\* still where it was.
C6_Witness ==
    /\ last.op = "toggle"
    /\ last.prevMode = SCATTERED /\ treeState = ASSEMBLED
    /\ last.prevTarget > 0 /\ targetMorphRef = 0
    /\ morphProgress > 0 /\ morphProgress = last.prevMorph
    /\ handDetected

\* C7: in every state the smoothed morph value and the smoothed height lie
\* in [0, 1], whatever the interleaving of loop runs, readings and toggles.
C7_OutputsInRange == InUnit(morphProgress) /\ InUnit(handHeight)

\* A reading of spread 1.2 has been stored (as target 1) and the loop has
\* then moved the morph value up to within 0.1 of the upper end.
C7_Witness ==
    /\ last.op = "loop"
    /\ frames = MaxFrames
    /\ targetMorphRef = Scale
    /\ last.prevMorph < morphProgress
    /\ morphProgress > Frac(9, 10)

\* C8: every reading passed to the callback has its spread in [0, 1.2] and
\* its height in [0, 1], and the morph target and the height target are in
\* [0, 1] in every state.
C8_ClampedBeforeStorage ==
    /\ last.op = "reading" =>
          /\ 0 <= last.distance /\ last.distance <= Frac(12, 10)
          /\ InUnit(last.height)
    /\ InUnit(targetMorphRef)
    /\ InUnit(targetHeightRef)

\* The reading of a hand outside the image was delivered with spread 1.2 and
\* height 1, and stored as morph target 1 and height target 1.
C8_Witness ==
    /\ last.op = "reading" /\ last.detected
    /\ last.distance = Frac(12, 10) /\ last.height = Scale
    /\ targetMorphRef = Scale /\ targetHeightRef = Scale

\* C9 as stated: a run of predictWebcam on a playing video lets no
\* exception escape, also when a landmark it reads is missing, and leaves
\* the next frame requested.
C9_MalformedIsHarmless ==
    [][(frames' = frames + 1 /\ mounted /\ handLandmarkerRef) =>
          /\ last'.op # "throw"
          /\ trackerPc' = "running"
      ]_vars

\* The tracker gave up acquiring the model or the camera.
AcquisitionFailed == trackerPc \in {"noModel", "noCamera"}

\* C10: once the model or the camera could not be acquired the tracker
\* stays where it is (no retry), predictWebcam never runs, the
\* hand-detected flag is false, and the smoothing loop and the toggle of the
\* mounted view can still run.
C10_ManualModeForGood ==
    /\ [](AcquisitionFailed =>
            /\ frames = 0
            /\ ~handDetected
            /\ (mounted /\ ticks < MaxTicks) => ENABLED Loop
            /\ (mounted /\ toggles < MaxToggles) => ENABLED ToggleState)
    /\ [][last'.op \in {"modelFailed", "cameraFailed"} => AcquisitionFailed']_vars
    /\ [][AcquisitionFailed => trackerPc' = trackerPc]_vars

\* The camera could not be opened; since then the toggle was clicked and the
\* smoothing loop has moved the morph value toward the toggled target.
C10_Witness ==
    /\ trackerPc = "noCamera"
    /\ mounted
    /\ ~handDetected
    /\ last.op = "loop"
    /\ treeState = SCATTERED /\ targetMorphRef = Scale
    /\ last.prevMorph < morphProgress

C12_SingleWriter ==
    [][/\ (morphProgress' # morphProgress \/ handHeight' # handHeight)
            => ticks' = ticks + 1 /\ last'.op = "loop"
       /\ ticks' = ticks + 1
            => /\ morphProgress'
                    = Smooth(morphProgress, targetMorphRef, MorphRate)
               /\ handHeight'
                    = Smooth(handHeight, targetHeightRef, HeightRate)
               /\ UNCHANGED <<targetMorphRef, targetHeightRef, treeState,
                              handDetected, hasStarted>>
       /\ last'.op \in {"reading", "toggle", "start"}
            => UNCHANGED <<morphProgress, handHeight>>]_vars

\* A gesture reading has just moved both targets while the smoothed values,
\* already under way, stayed put.
C12_Witness ==
    /\ last.op = "reading"
    /\ last.detected
    /\ targetMorphRef # last.prevTarget
    /\ targetHeightRef # handHeight
    /\ morphProgress = last.prevMorph
    /\ handHeight = last.prevHeight
    /\ morphProgress > 0
    /\ morphProgress # targetMorphRef

Corner(p) == p.x \in {0, 100} /\ p.y \in {0, 100}
IndexTips == {results[i][8] : i \in 1..Len(results)}

\* C14: the reading predictWebcam delivers for two hands has spread 0 when
\* the two index tips are at one position and exactly 1.2 when they are at
\* opposite corners of the image; its height is 1 when the index tips are
\* on the top row (y = 0) and 0 when they are on the bottom row (y = 1), for
\* two hands and for one hand alike.
C14_MapperBoundaries ==
    (last.op = "reading" /\ results # <<>>) =>
        /\ last.detected
        /\ (\A p \in IndexTips : p.y = 0) => last.height = Scale
        /\ (\A p \in IndexTips : p.y = 100) => last.height = 0
        /\ Len(results) = 2 =>
              LET a == results[1][8]
                  b == results[2][8]
              IN /\ a = b => last.distance = 0
                 /\ (Corner(a) /\ Corner(b) /\ a.x # b.x /\ a.y # b.y)
                       => last.distance = Frac(12, 10)

\* Two index tips at opposite corners: spread exactly 1.2, height 1/2.
C14_Witness ==
    /\ last.op = "reading"
    /\ Len(results) = 2
    /\ results[1][8] = P(0, 0)
    /\ results[2][8] = P(100, 100)
    /\ last.distance = Frac(12, 10)
    /\ last.height = Frac(1, 2)

\* a * b for a, b of [0, 1] in units of 10^-9, in 32-bit steps.
MulE9(a, b) ==
    (a \div 100000) * (b \div 100000) * 10
        + ((a \div 100000) * (b % 100000)) \div 10000
        + ((a % 100000) * (b \div 100000)) \div 10000
        + (((a % 100000) \div 100) * ((b % 100000) \div 100)) \div 100000

\* 0.92^n in units of 10^-9, by repeated squaring.
RECURSIVE Pow92(_)
Pow92(n) ==
    IF n <= 0 THEN 1000000000
    ELSE IF n % 2 = 0 THEN MulE9(Pow92(n \div 2), Pow92(n \div 2))
    ELSE MulE9(920000000, Pow92(n - 1))

\* 0.92^n and the closed form 1 - 0.92^n as fixed-point numbers.
Remaining(n) == ((Pow92(n) \div 1000) * (Scale \div 100)) \div 10000
ClosedForm(n) == Scale - Remaining(n)

\* C15 as stated: from current = 0 with the target at 1, after N runs of the
\* smoothing loop the morph value is 1 - 0.92^N within the arithmetic's
\* tolerance, for every N, the runs at and after the snap included.
C15_ClosedFormAlways ==
    ticks < TickCap => Abs(morphProgress - ClosedForm(ticks)) <= Tol

\* C15: from current = 0 with the target at 1, after N runs of the smoothing
\* loop the morph value is 1 - 0.92^N within the arithmetic's tolerance for
\* every N whose run did not snap, that is while 0.92^(N-1) >= 0.001; the
\* first run that finds 0.92^(N-1) < 0.001 sets the value to exactly 1, and
\* it stays there: from then on it is above the closed form by 0.92^N, less
\* than 0.001 but more than the tolerance at the snap.
C15_ClosedFormUntilSnap ==
    ticks < TickCap =>
        IF Remaining(ticks - 1) >= SnapEps
        THEN Abs(morphProgress - ClosedForm(ticks)) <= Tol
        ELSE /\ morphProgress = Scale
             /\ Remaining(ticks) < SnapEps
             /\ ticks = MorphSettleTicks
                   => morphProgress - ClosedForm(ticks) > Tol

\* The last run before the snap: still on the closed form, short of 1.
C15_Witness ==
    /\ ticks = MorphSettleTicks - 1
    /\ last.op = "loop"
    /\ Remaining(ticks - 1) >= SnapEps
    /\ morphProgress < Scale
    /\ Abs(morphProgress - ClosedForm(ticks)) <= Tol

\* The cone's radius at the height of a stored formation position: the base
\* radius at the bottom, tapering linearly to 0 at the top.
ConeRadiusAt(y) ==
    LET h == y + TREE_HEIGHT \div 2 + Milli \div 2
    IN MulMilli(Milli - (h * Milli) \div TREE_HEIGHT, TREE_RADIUS)
\* Squares of the distance from the tree's axis and from the origin.
Radial2(p) == p[1] * p[1] + p[3] * p[3]
Norm2(p) == Radial2(p) + p[2] * p[2]
Square(x) == IF x < 0 THEN 0 ELSE x * x
\* How far the jitter of 0.15 per axis can carry a point out of the cone at
\* its stored height: 0.15 * sqrt(2) sideways, and 0.15 up, where the cone
\* is narrower by 0.15 * 2.8 / 7; together less than 0.28.
JitterReach == (28 * Milli) \div 100

\* C16 as stated: the stored formation position of every foliage particle
\* is no farther from the tree's axis than the cone's radius at its height,
\* and its stored scatter position lies within the sphere of radius 12.
C16_InsideCone ==
    foliage.id >= 0 =>
        /\ Radial2(foliage.tree) <= Square(ConeRadiusAt(foliage.tree[2]))
        /\ Norm2(foliage.scatter) <= Square(SCATTER_RADIUS)

\* C16: the stored formation position of every foliage particle is farther
\* from the tree's axis than the cone's radius at its stored height by less
\* than 0.28 (the jitter of up to 0.15 per axis added to a point inside the
\* cone), and its stored scatter position lies within the sphere of radius
\* 12.
C16_InsideConeUpToJitter ==
    foliage.id >= 0 =>
        /\ Radial2(foliage.tree)
              <= Square(ConeRadiusAt(foliage.tree[2]) + JitterReach)
        /\ ConeRadiusAt(foliage.tree[2]) + JitterReach >= 0
        /\ Norm2(foliage.scatter) <= Square(SCATTER_RADIUS)

\* A particle sampled next to the apex and carried out of the cone by its
\* jitter, its scatter position on the far side of the sphere.
C16_Witness ==
    /\ foliage.id >= 0
    /\ Radial2(foliage.tree) > Square(ConeRadiusAt(foliage.tree[2]))
    /\ foliage.tree[2] > 2 * Milli
    /\ Norm2(foliage.scatter) > Square(11 * Milli)

\* C17 as stated: whenever the callback the tracker holds processes a
\* reading with detected = false, the morph target becomes the endpoint of
\* the mode in effect at that moment (0 for Assembled, 1 for Scattered), a
\* mode set by a toggle or by hysteresis after tracking began included; so
\* a no-hands camera frame does not undo a toggle.
C17_FallbackFollowsLiveMode ==
    [][(ReadingStep /\ ~last'.detected) =>
          /\ targetMorphRef' = Endpoint(treeState)
          /\ (last.op = "toggle" => targetMorphRef' = targetMorphRef)
      ]_vars

\* C18 as stated: every ornament instance is exactly at its formation
\* position when the smoothed morph value is 0, and when the smoothed morph
\* value is 1 its local progress is 1 and it is exactly at its scatter
\* position.
C18_BlendEndpoints ==
    dummy.id >= 0 =>
        /\ dummy.targetMorph = 0 => dummy.position = dummy.treePosition
        /\ dummy.targetMorph = Scale =>
              /\ dummy.localMorph = Scale
              /\ dummy.position = dummy.scatterPosition

====
